---- MODULE Spec2Model ----
(***************************************************************************)
(* Leader election core of rsraft (src/src/raft/core.rs).                  *)
(*                                                                         *)
(* Every `server.lock().unwrap()` critical section of core.rs is one       *)
(* atomic step of the model.  Reads of the immutable `id` field and the    *)
(* reads that only feed `info!` (core.rs 117, 129-130, 172) are folded     *)
(* into the neighbouring step: they change nothing and nothing read by     *)
(* them is used afterwards.                                                *)
(*                                                                         *)
(* The Server methods (new, start, refresh_timeout, has_timed_out,         *)
(* become_leader) live in raft/types.rs and the transport behind the       *)
(* RpcClient trait lives in raft/tcp_rpc_client.rs; neither file is part   *)
(* of the sources at hand, so they are modelled from spec.md 4.1 and 6.    *)
(*                                                                         *)
(* Five specifications:                                                    *)
(*   Spec             one server (Observed) with its background thread and *)
(*                    its two inbound handlers, in front of peers that may *)
(*                    send any VoteRequest or Heartbeat and answer its     *)
(*                    VoteRequest in any way: the harness of the tests of  *)
(*                    core.rs with an arbitrary FakeRpc.                   *)
(*   ClusterSpec      the three servers that prototype/src/main.rs         *)
(*                    assembles, each running the same steps, joined by    *)
(*                    the transport.                                       *)
(*   FairClusterSpec  that cluster with threads that keep running, clocks  *)
(*                    that keep ticking and a transport that delivers      *)
(*                    every message.                                       *)
(*   ElectionSpec     new_election called on a server that was never       *)
(*                    started, with any number of peers and a FakeRpc that *)
(*                    returns any list of responses: no inbound call, no   *)
(*                    timeout.                                             *)
(*   SyncClusterSpec  the cluster with a transport whose calls return only *)
(*                    when the handlers of the peers have returned.        *)
(***************************************************************************)
EXTENDS Integers, Sequences, FiniteSets, TLC

\* The servers of the cluster.
Node == {"server_1", "server_2", "server_3"}

\* Server.number_of_peers: the number of other servers.
number_of_peers == 2

\* Terms are u64 in the code; the model stops starting elections at MaxTerm.
MaxTerm == 2

\* ServerConfig.timeout in ticks of the server's clock.
TimeoutDuration == 1

\* The RpcClient of a server carries at most this many VoteRequests and this
\* many Heartbeats at a time; a fan-out blocks until it has room for them.
MaxInFlight == 2

\* ClusterSpec stops starting elections at this term.
ClusterMaxTerm == 1

\* ElectionSpec tries every number_of_peers and every FakeRpc up to MaxPeers.
MaxPeers == 4

\* The server that Spec watches.
Observed == "server_1"

FOLLOWER == "FOLLOWER"
CANDIDATE == "CANDIDATE"
LEADER == "LEADER"

\* Option<T>: None is the empty sequence, Some(x) the sequence of x alone.
None == << >>
Some(x) == << x >>

VARIABLES
    server,         \* server[n]: the Server behind n's Arc<Mutex<..>>
    pc,             \* pc[n]: where n's background thread stands
    vote_request,   \* vote_request[n]: the Option<VoteRequest> of new_election
    vote_response,  \* vote_response[n]: the Vec<VoteResponse> collected so far
    vote_requests,  \* VoteRequests the transport still carries
    log_entries,    \* Heartbeats the transport still carries
    votes_granted,  \* history: the terms of the requests n has granted
    last,           \* history: the last inbound call of a peer, its result
    candidacy,      \* history: the term n set in the candidacy it is running
    led,            \* history: the terms at which n became LEADER
    quiet           \* history: the ticks of n's clock since its last heartbeat

vars == << server, pc, vote_request, vote_response, vote_requests,
           log_entries, votes_granted, last, candidacy, led, quiet >>

----------------------------------------------------------------------------
(* raft/types.rs, from spec.md 4.1                                         *)

\* Server::new: inert, FOLLOWER, term 0, no vote, no timeout.
new == [ term |-> 0, state |-> FOLLOWER, voted_for |-> None,
         current_leader |-> None, next_timeout |-> None, started |-> FALSE,
         number_of_peers |-> number_of_peers ]

\* next_timeout = now + timeout_duration, kept as the ticks still to go.
refresh_timeout(s) == [s EXCEPT !.next_timeout = Some(TimeoutDuration)]

start(s) == [refresh_timeout(s) EXCEPT !.started = TRUE]

\* started, next_timeout set and now >= next_timeout.
has_timed_out(s) ==
    /\ s.started
    /\ s.next_timeout # None
    /\ s.next_timeout[1] = 0

\* Precondition: role is CANDIDATE (see BecomeLeader for the other case).
become_leader(s, id) ==
    [s EXCEPT !.state = LEADER,
              !.next_timeout = None,
              !.current_leader = Some([id |-> id, term |-> s.term])]

----------------------------------------------------------------------------
(* core.rs: what each locked section does to the Server                    *)

\* handle_vote_request, lines 31-54: is the vote granted?
vote_granted(s, request) ==
    /\ s.voted_for = None
    /\ request.term > s.term

\* A voter that also moves to the term of the vote it grants.
record_vote_and_term(s, request) ==
    IF vote_granted(s, request)
    THEN [s EXCEPT !.voted_for = Some(request.candidate_id),
                   !.term = request.term]
    ELSE s

\* lines 38-42: the vote is recorded, nothing else changes.
record_vote(s, request) ==
    IF vote_granted(s, request)
    THEN [s EXCEPT !.voted_for = Some(request.candidate_id)]
    ELSE s

\* lines 32-52: the response echoes the request's term.
vote_response_for(s, request) ==
    [ term |-> request.term, vote_granted |-> vote_granted(s, request) ]

\* A comparison that takes any other term for a newer one.
is_other_term(s, entry) == entry.term # s.term

\* A comparison that also takes the server's own term for a newer one.
is_same_or_newer_term(s, entry) == entry.term >= s.term

\* handle_log_entry, line 69.
is_newer_term(s, entry) == entry.term > s.term

\* A handle_log_entry that refreshes the timeout only when it adopts the term.
apply_heartbeat_refreshing_late(s, entry) ==
    IF is_newer_term(s, entry)
    THEN [refresh_timeout(s) EXCEPT
              !.term = entry.term,
              !.state = FOLLOWER,
              !.voted_for = None,
              !.current_leader =
                  Some([id |-> entry.peer_id, term |-> entry.term])]
    ELSE s

\* A handle_log_entry that keeps the vote when it adopts the term.
apply_heartbeat_keeping_vote(s, entry) ==
    LET r == refresh_timeout(s) IN
    IF is_newer_term(r, entry)
    THEN [r EXCEPT !.term = entry.term,
                   !.state = FOLLOWER,
                   !.current_leader =
                       Some([id |-> entry.peer_id, term |-> entry.term])]
    ELSE r

\* handle_log_entry, lines 67-82.
apply_heartbeat(s, entry) ==
    LET r == refresh_timeout(s) IN
    IF is_newer_term(r, entry)
    THEN [r EXCEPT !.term = entry.term,
                   !.state = FOLLOWER,
                   !.voted_for = None,
                   !.current_leader =
                       Some([id |-> entry.peer_id, term |-> entry.term])]
    ELSE r

\* A candidacy that does not vote for itself.
start_candidacy_without_vote(s, id) ==
    refresh_timeout([s EXCEPT !.state = CANDIDATE, !.term = s.term + 1])

\* handle_log_entry, lines 85-87: the term after the heartbeat is returned.
current_term(s, entry) == apply_heartbeat(s, entry).term

\* prepare_vote_request, lines 161-168.
start_candidacy(s, id) ==
    [refresh_timeout([s EXCEPT !.state = CANDIDATE, !.term = s.term + 1])
        EXCEPT !.voted_for = Some(id)]

\* has_won_the_election, line 183: the responses that grant the vote.
RECURSIVE count_granted(_)
count_granted(response) ==
    IF response = << >> THEN 0
    ELSE (IF Head(response).vote_granted THEN 1 ELSE 0)
         + count_granted(Tail(response))

\* A quorum that rounds the half up.
min_quorum_rounded_up(s) == (s.number_of_peers + 2) \div 2

\* lines 181-185: floor of the integer quotient.
min_quorum(s) == (s.number_of_peers + 1) \div 2

\* A tally that is content with half of the cluster.
has_won_with_half(s, response) ==
    /\ (count_granted(response) + 1) >= min_quorum(s)
    /\ CANDIDATE = s.state

\* has_won_the_election, lines 181-187.
has_won_the_election(s, response) ==
    /\ (count_granted(response) + 1) > min_quorum(s)
    /\ CANDIDATE = s.state

\* new_election, line 146.
own_election_after_deadline(s, response) ==
    has_won_the_election(s, response)

own_election(s, response) ==
    has_won_the_election(s, response) /\ ~has_timed_out(s)

----------------------------------------------------------------------------
(* The transport (RpcClient), from spec.md 6                               *)

Peers(n) == Node \ {n}

\* request_vote fans the request out to every peer.
fan_out_vote(n, request) ==
    { [term |-> request.term, candidate_id |-> request.candidate_id, to |-> p]
        : p \in Peers(n) }

\* broadcast_log_entry fans the heartbeat out to every peer.
fan_out_heartbeat(n, t) ==
    { [term |-> t, peer_id |-> n, to |-> p] : p \in Peers(n) }

\* What the RpcClient of server n still carries.
own_vote_requests(n) == { m \in vote_requests : m.candidate_id = n }
own_log_entries(n) == { m \in log_entries : m.peer_id = n }

\* The RpcClient that carries net has room for the fan-out out.
has_room(net, out) == Cardinality(net \cup out) <= MaxInFlight

\* become_leader holds the MutexGuard while the transport broadcasts
\* (core.rs 191-200); a poisoned Mutex (panic under the guard) never unlocks.
lock_held(n) == pc[n] \in {"broadcasting", "aborted"}

\* The background thread of n is inside a call of its RpcClient:
\* request_vote (line 138) or the broadcast_log_entry of become_leader
\* (line 200).  The broadcast_log_entry of broadcast_heartbeat (line 104)
\* is called and returns within one step, with no guard alive.
in_transport_call(n) == pc[n] \in {"request_vote", "broadcasting"}

NoCall == [ op |-> "none" ]

----------------------------------------------------------------------------
Init ==
    /\ server = [n \in Node |-> new]
    /\ pc = [n \in Node |-> "start_server"]
    /\ vote_request = [n \in Node |-> None]
    /\ vote_response = [n \in Node |-> << >>]
    /\ vote_requests = {}
    /\ log_entries = {}
    /\ votes_granted = [n \in Node |-> {}]
    /\ last = NoCall
    /\ candidacy = [n \in Node |-> None]
    /\ led = [n \in Node |-> {}]
    /\ quiet = [n \in Node |-> 0]

\* start_server, line 19.
StartServer(n) ==
    /\ pc[n] = "start_server"
    /\ server' = [server EXCEPT ![n] = start(server[n])]
    /\ pc' = [pc EXCEPT ![n] = "handle_timeout"]
    /\ UNCHANGED << vote_request, vote_response, vote_requests, log_entries,
                    votes_granted, last >>
    /\ UNCHANGED << candidacy, led, quiet >>

\* The server's clock advances towards the deadline.
Tick(n) ==
    /\ server[n].next_timeout # None
    /\ server[n].next_timeout[1] > 0
    /\ server' = [server EXCEPT
                    ![n].next_timeout = Some(server[n].next_timeout[1] - 1)]
    /\ UNCHANGED << pc, vote_request, vote_response, vote_requests,
                    log_entries, votes_granted, last >>
    /\ quiet' = [quiet EXCEPT ![n] = IF @ < TimeoutDuration THEN @ + 1 ELSE @]
    /\ UNCHANGED << candidacy, led >>

\* handle_timeout, lines 118-124.
HandleTimeout(n) ==
    /\ pc[n] = "handle_timeout"
    /\ pc' = [pc EXCEPT ![n] = IF has_timed_out(server[n])
                                 THEN "prepare_vote_request"
                                 ELSE "broadcast_heartbeat"]
    /\ UNCHANGED << server, vote_request, vote_response, vote_requests,
                    log_entries, votes_granted, last >>
    /\ UNCHANGED << candidacy, led, quiet >>

\* A prepare_vote_request without its LEADER check.
PrepareWithoutLeaderCheck(n) ==
    /\ pc[n] = "prepare_vote_request"
    /\ pc' = [pc EXCEPT ![n] = "start_candidacy"]
    /\ UNCHANGED << server, vote_request, vote_response, vote_requests,
                    log_entries, votes_granted, last >>
    /\ UNCHANGED << candidacy, led, quiet >>

\* prepare_vote_request, lines 156-158: a leader prepares no request, and
\* new_election (137-152) then has nothing to do.
PrepareLeaderCheck(n) ==
    /\ pc[n] = "prepare_vote_request"
    /\ pc' = [pc EXCEPT ![n] = IF server[n].state = LEADER
                                 THEN "no_election"
                                 ELSE "start_candidacy"]
    /\ UNCHANGED << server, vote_request, vote_response, vote_requests,
                    log_entries, votes_granted, last >>
    /\ UNCHANGED << candidacy, led, quiet >>

\* prepare_vote_request, lines 160-169.
StartCandidacy(n) ==
    /\ pc[n] = "start_candidacy"
    /\ server[n].term < MaxTerm
    /\ server' = [server EXCEPT ![n] = start_candidacy(server[n], n)]
    /\ pc' = [pc EXCEPT ![n] = "snapshot_term"]
    /\ UNCHANGED << vote_request, vote_response, vote_requests, log_entries,
                    votes_granted, last >>
    /\ candidacy' = [candidacy EXCEPT ![n] = Some(server'[n].term)]
    /\ UNCHANGED << led, quiet >>

\* prepare_vote_request, lines 171-177, and new_election, line 138: the term
\* is read under a new lock, and the request goes out.
RequestVote(n) ==
    /\ pc[n] = "snapshot_term"
    /\ LET request == [term |-> server[n].term, candidate_id |-> n] IN
        /\ vote_request' = [vote_request EXCEPT ![n] = Some(request)]
        /\ has_room(own_vote_requests(n), fan_out_vote(n, request))
        /\ vote_requests' = vote_requests \cup fan_out_vote(n, request)
    /\ pc' = [pc EXCEPT ![n] = "request_vote"]
    /\ UNCHANGED << server, vote_response, log_entries, votes_granted, last >>
    /\ UNCHANGED << candidacy, led, quiet >>

\* request_vote returns with the responses that arrived before its deadline;
\* the peers that did not answer are given up.
RequestVoteReturn(n) ==
    /\ pc[n] = "request_vote"
    /\ vote_requests' = { m \in vote_requests : m.candidate_id # n }
    /\ pc' = [pc EXCEPT ![n] = "tally"]
    /\ UNCHANGED << server, vote_request, vote_response, log_entries,
                    votes_granted, last >>
    /\ UNCHANGED << candidacy, led, quiet >>

\* new_election, lines 142-151: promotion follows, or new_election returns.
Tally(n) ==
    /\ pc[n] = "tally"
    /\ IF own_election(server[n], vote_response[n])
       THEN /\ pc' = [pc EXCEPT ![n] = "become_leader"]
            /\ UNCHANGED << vote_request, vote_response >>
       ELSE /\ pc' = [pc EXCEPT ![n] = "lost_election"]
            /\ UNCHANGED << vote_request, vote_response >>
    /\ UNCHANGED << server, vote_requests, log_entries, votes_granted, last >>
    /\ UNCHANGED << candidacy, led, quiet >>

\* new_election returns without a promotion (line 153) and its locals are
\* dropped; handle_timeout returns (line 125).
ElectionReturn(n) ==
    /\ pc[n] \in {"no_election", "lost_election"}
    /\ pc' = [pc EXCEPT ![n] = "broadcast_heartbeat"]
    /\ vote_request' = [vote_request EXCEPT ![n] = None]
    /\ vote_response' = [vote_response EXCEPT ![n] = << >>]
    /\ UNCHANGED << server, vote_requests, log_entries, votes_granted, last >>
    /\ candidacy' = [candidacy EXCEPT ![n] = None]
    /\ UNCHANGED << led, quiet >>

\* become_leader, lines 191-200, on a CANDIDATE, or on a server that
\* Server::become_leader rejects: the heartbeat is broadcast under the lock.
BecomeLeader(n) ==
    /\ pc[n] = "become_leader"
    /\ server' = [server EXCEPT ![n] =
                    IF server[n].state = CANDIDATE
                    THEN become_leader(server[n], n)
                    ELSE server[n]]
    /\ has_room(own_log_entries(n), fan_out_heartbeat(n, server[n].term))
    /\ log_entries' = log_entries \cup fan_out_heartbeat(n, server[n].term)
    /\ pc' = [pc EXCEPT ![n] = "broadcasting"]
    /\ UNCHANGED << vote_request, vote_response, vote_requests,
                    votes_granted, last >>
    /\ led' = [led EXCEPT ![n] = IF server[n].state = CANDIDATE
                                    THEN @ \cup {server[n].term}
                                    ELSE @]
    /\ UNCHANGED << candidacy, quiet >>

\* become_leader on a server that is no CANDIDATE, where Server::become_leader
\* asserts: the thread panics under the guard and the Mutex is poisoned.
BecomeLeaderAbort(n) ==
    /\ pc[n] = "become_leader"
    /\ server[n].state # CANDIDATE
    /\ pc' = [pc EXCEPT ![n] = "aborted"]
    /\ vote_request' = [vote_request EXCEPT ![n] = None]
    /\ vote_response' = [vote_response EXCEPT ![n] = << >>]
    /\ UNCHANGED << server, vote_requests, log_entries, votes_granted, last >>
    /\ candidacy' = [candidacy EXCEPT ![n] = None]
    /\ UNCHANGED << led, quiet >>

\* broadcast_log_entry returns to become_leader, the guard is dropped
\* (line 201) and new_election and handle_timeout return.
BroadcastReturn(n) ==
    /\ pc[n] = "broadcasting"
    /\ pc' = [pc EXCEPT ![n] = "broadcast_heartbeat"]
    /\ vote_request' = [vote_request EXCEPT ![n] = None]
    /\ vote_response' = [vote_response EXCEPT ![n] = << >>]
    /\ UNCHANGED << server, vote_requests, log_entries, votes_granted, last >>
    /\ candidacy' = [candidacy EXCEPT ![n] = None]
    /\ UNCHANGED << led, quiet >>

\* broadcast_heartbeat, lines 98-100.
HeartbeatLeaderCheck(n) ==
    /\ pc[n] = "broadcast_heartbeat"
    /\ pc' = [pc EXCEPT ![n] = IF server[n].state = LEADER
                                 THEN "heartbeat_term"
                                 ELSE "handle_timeout"]
    /\ UNCHANGED << server, vote_request, vote_response, vote_requests,
                    log_entries, votes_granted, last >>
    /\ UNCHANGED << candidacy, led, quiet >>

\* broadcast_heartbeat, lines 101-112: the term is read under a new lock.
BroadcastHeartbeat(n) ==
    /\ pc[n] = "heartbeat_term"
    /\ has_room(own_log_entries(n), fan_out_heartbeat(n, server[n].term))
    /\ log_entries' = log_entries \cup fan_out_heartbeat(n, server[n].term)
    /\ pc' = [pc EXCEPT ![n] = "handle_timeout"]
    /\ UNCHANGED << server, vote_request, vote_response, vote_requests,
                    votes_granted, last >>
    /\ UNCHANGED << candidacy, led, quiet >>

\* handle_vote_request, lines 28-56, run by server n on a transport thread;
\* the caller gets vote_response_for(server[n], request).
HandleVoteRequest(n, request) ==
    /\ ~lock_held(n)
    /\ server' = [server EXCEPT ![n] = record_vote(server[n], request)]
    /\ votes_granted' =
         IF vote_granted(server[n], request)
         THEN [votes_granted EXCEPT
                 ![n] = votes_granted[n] \cup {request.term}]
         ELSE votes_granted
    /\ UNCHANGED << pc, vote_request, log_entries >>
    /\ UNCHANGED << candidacy, led, quiet >>

\* handle_log_entry, lines 58-88, run by server n on a transport thread;
\* the caller gets current_term(server[n], entry).
HandleLogEntry(n, entry) ==
    /\ ~lock_held(n)
    /\ server' = [server EXCEPT ![n] = apply_heartbeat(server[n], entry)]
    /\ UNCHANGED << pc, vote_request, vote_response, vote_requests,
                    votes_granted >>
    /\ quiet' = [quiet EXCEPT ![n] = 0]
    /\ UNCHANGED << candidacy, led >>

\* The steps of the background thread of server n (background_task, lines
\* 90-95) that are the same in every specification.
Drive(n) ==
    \/ StartServer(n)
    \/ HandleTimeout(n)
    \/ PrepareLeaderCheck(n)
    \/ RequestVote(n)
    \/ Tally(n)
    \/ ElectionReturn(n)
    \/ BecomeLeader(n)
    \/ BroadcastReturn(n)
    \/ HeartbeatLeaderCheck(n)
    \/ BroadcastHeartbeat(n)

----------------------------------------------------------------------------
(* Spec: the peers and the transport may do anything to the server         *)

\* The VoteRequests and Heartbeats a peer of n can send.
VoteRequestsFor(n) ==
    { [term |-> t, candidate_id |-> c] : t \in 0..MaxTerm, c \in Peers(n) }

HeartbeatsFor(n) ==
    { [term |-> t, peer_id |-> p] : t \in 0..MaxTerm, p \in Peers(n) }

\* A peer requests the vote of server n.
PeerRequestsVote(n) ==
    \E request \in VoteRequestsFor(n) :
        /\ HandleVoteRequest(n, request)
        /\ last' = [ op |-> "handle_vote_request", node |-> n,
                     msg |-> request,
                     ret |-> vote_response_for(server[n], request) ]
        /\ UNCHANGED << vote_requests, vote_response >>

\* A peer sends a heartbeat to server n.
PeerSendsHeartbeat(n) ==
    \E entry \in HeartbeatsFor(n) :
        /\ HandleLogEntry(n, entry)
        /\ last' = [ op |-> "handle_log_entry", node |-> n, msg |-> entry,
                     ret |-> current_term(server[n], entry) ]
        /\ UNCHANGED log_entries

\* A peer answers the VoteRequest of server n (as FakeRpc::request_vote does,
\* lines 428-439, the response echoes the request's term).
PeerAnswersVote(n) ==
    /\ pc[n] = "request_vote"
    /\ \E m \in vote_requests, g \in BOOLEAN :
         /\ m.candidate_id = n
         /\ vote_requests' = vote_requests \ {m}
         /\ vote_response' = [vote_response EXCEPT ![n] =
               Append(vote_response[n],
                      [term |-> m.term, vote_granted |-> g])]
    /\ UNCHANGED << server, pc, vote_request, log_entries, votes_granted,
                    last >>
    /\ UNCHANGED << candidacy, led, quiet >>

\* A heartbeat of server n reaches its peer.
PeerReceivesHeartbeat(n) ==
    /\ \E m \in log_entries :
         /\ m.peer_id = n
         /\ log_entries' = log_entries \ {m}
    /\ UNCHANGED << server, pc, vote_request, vote_response, vote_requests,
                    votes_granted, last >>
    /\ UNCHANGED << candidacy, led, quiet >>

Next ==
    \/ Drive(Observed)
    \/ StartCandidacy(Observed)
    \/ RequestVoteReturn(Observed)
    \/ BecomeLeaderAbort(Observed)
    \/ Tick(Observed)
    \/ PeerRequestsVote(Observed)
    \/ PeerSendsHeartbeat(Observed)
    \/ PeerAnswersVote(Observed)
    \/ PeerReceivesHeartbeat(Observed)

Spec == Init /\ [][Next]_vars

----------------------------------------------------------------------------
(* ElectionSpec: new_election called on a server that was never started,   *)
(* with a FakeRpc, as the tests of raft_new_election do                    *)

\* Server::new(config, peer_count, address, id).
new_server(peer_count) == [new EXCEPT !.number_of_peers = peer_count]

\* build_server, with any number of peers up to MaxPeers; the test calls
\* new_election at once.
ElectionInit ==
    /\ \E peer_count \in 0..MaxPeers :
          server = [n \in Node |-> IF n = Observed
                                   THEN new_server(peer_count)
                                   ELSE new]
    /\ pc = [n \in Node |-> IF n = Observed
                             THEN "prepare_vote_request"
                             ELSE "start_server"]
    /\ vote_request = [n \in Node |-> None]
    /\ vote_response = [n \in Node |-> << >>]
    /\ vote_requests = {}
    /\ log_entries = {}
    /\ votes_granted = [n \in Node |-> {}]
    /\ last = NoCall
    /\ candidacy = [n \in Node |-> None]
    /\ led = [n \in Node |-> {}]
    /\ quiet = [n \in Node |-> 0]

\* FakeRpc::request_vote, lines 428-439: one response per peer of the
\* FakeRpc, each echoing the request's term; here the peers answer as they
\* like, and the FakeRpc has up to MaxPeers of them.
FakeRequestVote(n) ==
    /\ pc[n] = "request_vote"
    /\ \E peers \in 0..MaxPeers :
         \E granted_vote \in [1..peers -> BOOLEAN] :
            vote_response' = [vote_response EXCEPT ![n] =
                [i \in 1..peers |-> [term |-> vote_request[n][1].term,
                                     vote_granted |-> granted_vote[i]]]]
    /\ vote_requests' = { m \in vote_requests : m.candidate_id # n }
    /\ pc' = [pc EXCEPT ![n] = "tally"]
    /\ UNCHANGED << server, vote_request, log_entries, votes_granted, last >>
    /\ UNCHANGED << candidacy, led, quiet >>

\* The test calls raft.new_election() again.
CallNewElection(n) ==
    /\ pc[n] = "broadcast_heartbeat"
    /\ pc' = [pc EXCEPT ![n] = "prepare_vote_request"]
    /\ UNCHANGED << server, vote_request, vote_response, vote_requests,
                    log_entries, votes_granted, last >>
    /\ UNCHANGED << candidacy, led, quiet >>

ElectionNext ==
    \/ PrepareLeaderCheck(Observed)
    \/ StartCandidacy(Observed)
    \/ RequestVote(Observed)
    \/ FakeRequestVote(Observed)
    \/ Tally(Observed)
    \/ ElectionReturn(Observed)
    \/ BecomeLeader(Observed)
    \/ BroadcastReturn(Observed)
    \/ CallNewElection(Observed)

ElectionSpec == ElectionInit /\ [][ElectionNext]_vars

----------------------------------------------------------------------------
(* ClusterSpec: the peers are servers too                                  *)

\* The transport of the candidate calls handle_vote_request of server m.to
\* and takes the response back to the candidate waiting in request_vote.
DeliverVoteRequest(m) ==
    LET request == [term |-> m.term, candidate_id |-> m.candidate_id] IN
    /\ HandleVoteRequest(m.to, request)
    /\ vote_requests' = vote_requests \ {m}
    /\ vote_response' = [vote_response EXCEPT ![m.candidate_id] =
           Append(@, vote_response_for(server[m.to], request))]
    /\ UNCHANGED last

\* The transport of the sender calls handle_log_entry of server m.to.
DeliverLogEntry(m) ==
    /\ HandleLogEntry(m.to, [term |-> m.term, peer_id |-> m.peer_id])
    /\ log_entries' = log_entries \ {m}
    /\ UNCHANGED last

\* The slice of the cluster that is explored: no election beyond
\* ClusterMaxTerm.  No server of that slice is promoted when it is no
\* CANDIDATE, so BecomeLeaderAbort has no part in it.
ClusterStartCandidacy(n) ==
    /\ server[n].term < ClusterMaxTerm
    /\ StartCandidacy(n)

ClusterNext ==
    \/ \E n \in Node : Drive(n)
    \/ \E n \in Node : ClusterStartCandidacy(n)
    \/ \E n \in Node : RequestVoteReturn(n)
    \/ \E n \in Node : Tick(n)
    \/ \E m \in vote_requests : DeliverVoteRequest(m)
    \/ \E m \in log_entries : DeliverLogEntry(m)

ClusterSpec == Init /\ [][ClusterNext]_vars

\* request_vote does not give up on a peer: it returns when every peer has
\* answered.
PatientRequestVoteReturn(n) ==
    /\ \A m \in vote_requests : m.candidate_id # n
    /\ RequestVoteReturn(n)

PatientBackground(n) ==
    \/ Drive(n)
    \/ ClusterStartCandidacy(n)
    \/ PatientRequestVoteReturn(n)

PatientNext ==
    \/ \E n \in Node : PatientBackground(n)
    \/ \E n \in Node : Tick(n)
    \/ \E m \in vote_requests : DeliverVoteRequest(m)
    \/ \E m \in log_entries : DeliverLogEntry(m)

\* Every background thread keeps running, every clock keeps ticking, and the
\* transport delivers every VoteRequest, VoteResponse and Heartbeat.
FairClusterSpec ==
    /\ Init
    /\ [][PatientNext]_vars
    /\ \A n \in Node : WF_vars(PatientBackground(n))
    /\ \A n \in Node : WF_vars(Tick(n))
    /\ WF_vars(\E m \in vote_requests : DeliverVoteRequest(m))
    /\ WF_vars(\E m \in log_entries : DeliverLogEntry(m))

----------------------------------------------------------------------------
(* SyncClusterSpec: a call of the RpcClient returns only when the handler  *)
(* of every peer has taken the peer's lock and returned                    *)

\* The background thread of n is not waiting in broadcast_log_entry: every
\* handle_log_entry it called has returned.
broadcast_done(n) == own_log_entries(n) = {}

\* The steps of Drive(n), each taken only when the last broadcast is done.
SyncBackground(n) ==
    \/ broadcast_done(n) /\ StartServer(n)
    \/ broadcast_done(n) /\ HandleTimeout(n)
    \/ broadcast_done(n) /\ PrepareLeaderCheck(n)
    \/ broadcast_done(n) /\ ClusterStartCandidacy(n)
    \/ broadcast_done(n) /\ RequestVote(n)
    \/ broadcast_done(n) /\ PatientRequestVoteReturn(n)
    \/ broadcast_done(n) /\ Tally(n)
    \/ broadcast_done(n) /\ ElectionReturn(n)
    \/ broadcast_done(n) /\ BecomeLeader(n)
    \/ broadcast_done(n) /\ BroadcastReturn(n)
    \/ broadcast_done(n) /\ HeartbeatLeaderCheck(n)
    \/ broadcast_done(n) /\ BroadcastHeartbeat(n)

SyncClusterNext ==
    \/ \E n \in Node : SyncBackground(n)
    \/ \E n \in Node : Tick(n)
    \/ \E m \in vote_requests : DeliverVoteRequest(m)
    \/ \E m \in log_entries : DeliverLogEntry(m)

SyncClusterSpec == Init /\ [][SyncClusterNext]_vars

----------------------------------------------------------------------------
(* Properties                                                              *)

\* The step is the call handle_vote_request(request) of a peer on server n.
PeerCallsHandleVoteRequest(n, request) ==
    /\ HandleVoteRequest(n, request)
    /\ UNCHANGED << vote_requests, vote_response >>

\* The step is the call handle_log_entry(entry) of a peer on server n.
PeerCallsHandleLogEntry(n, entry) ==
    /\ HandleLogEntry(n, entry)
    /\ UNCHANGED log_entries

\* The responses of a Vec<VoteResponse> that grant the vote.
Grants(response) ==
    Cardinality({ i \in 1..Len(response) : response[i].vote_granted })

\* C1: at any instant and for any term, at most one server of the cluster is
\* LEADER with that term.
C1_ElectionSafety ==
    \A n, m \in Node :
        (/\ server[n].state = LEADER
         /\ server[m].state = LEADER
         /\ server[n].term = server[m].term) => n = m

\* C2: a server returns vote_granted = true for a VoteRequest of term t at
\* most once, over any sequence of handle_vote_request and handle_log_entry
\* calls: a step that grants a vote for term t is never taken by a server
\* that has granted a vote for term t before.
C2_OneVotePerTerm ==
    [][LET n == last'.node
           request == last'.msg
       IN (/\ last'.op = "handle_vote_request"
           /\ PeerCallsHandleVoteRequest(n, request)
           /\ last'.ret.vote_granted)
              => request.term \notin votes_granted[n]]_vars

\* C3: no step of any kind lowers the term of a server.
C3_TermNeverDecreases ==
    [][\A n \in Node : server'[n].term >= server[n].term]_vars

\* A server that adopted term 1 from a heartbeat and then raised it to 2 in
\* its own candidacy.
C3_Witness ==
    \E n \in Node :
        /\ server[n].term = 2
        /\ server[n].state = CANDIDATE
        /\ server[n].current_leader # None
        /\ server[n].current_leader[1].term = 1

\* Every server is started, no server can grant a vote, no server is or is
\* about to be LEADER, and no heartbeat is on its way.
ElectionStuck ==
    /\ log_entries = {}
    /\ \A n \in Node :
          /\ server[n].started
          /\ server[n].voted_for # None
          /\ server[n].state # LEADER
          /\ pc[n] \notin {"become_leader", "broadcasting", "heartbeat_term"}
          /\ Grants(vote_response[n]) = 0

\* Once the election is stuck it stays stuck, whatever the servers do and
\* whatever is delivered: only a Heartbeat clears voted_for, only a LEADER
\* sends one, and only a server with voted_for = None grants a vote.  The
\* retries at the terms above ClusterMaxTerm start from such a state and end
\* in it.
StuckForever == [][ElectionStuck => ElectionStuck']_vars

\* C4: in a cluster of started servers without a LEADER, with every
\* background thread running and every message delivered, some server
\* eventually is LEADER, by retries at higher terms if need be.  Stated for
\* a finite run: the cluster never is in a state without a LEADER that no
\* retry leaves (StuckForever).
C4_ElectionNeverStuck == ~ElectionStuck

\* C4 as a property of the behaviours of FairClusterSpec.
C4_LeaderEventually == <>(\E n \in Node : server[n].state = LEADER)

\* C5: a server becomes LEADER only in a step from CANDIDATE, and only with
\* responses to the VoteRequest of its current term whose grants, plus its
\* own vote, exceed floor((number_of_peers + 1) / 2).
C5_PromotionNeedsMajority ==
    [][\A n \in Node :
          (server'[n].state = LEADER /\ server[n].state # LEADER)
              => /\ server[n].state = CANDIDATE
                 /\ vote_request[n] =
                        Some([term |-> server[n].term, candidate_id |-> n])
                 /\ Grants(vote_response[n]) + 1
                        > (server[n].number_of_peers + 1) \div 2]_vars

\* A server promoted just now, whose last inbound call was a heartbeat of its
\* own term (which leaves a CANDIDATE a CANDIDATE).
C5_Witness ==
    \E n \in Node :
        /\ pc[n] = "broadcasting"
        /\ server[n].state = LEADER
        /\ last.op = "handle_log_entry"
        /\ last.node = n
        /\ last.msg.term = server[n].term

\* C6: a LEADER has voted for itself and sees itself as the leader of its
\* current term.
C6_LeaderVotedForItself ==
    \A n \in Node :
        server[n].state = LEADER
            => /\ server[n].voted_for = Some(n)
               /\ server[n].current_leader =
                      Some([id |-> n, term |-> server[n].term])

\* A LEADER that has just denied a VoteRequest of a higher term.
C6_Witness ==
    \E n \in Node :
        /\ server[n].state = LEADER
        /\ last.op = "handle_vote_request"
        /\ last.node = n
        /\ last.msg.term > server[n].term

\* C7: on a started server next_timeout is unset if the role is LEADER and
\* set if the role is FOLLOWER or CANDIDATE.
C7_TimeoutMatchesRole ==
    \A n \in Node :
        server[n].started
            => IF server[n].state = LEADER
               THEN server[n].next_timeout = None
               ELSE server[n].next_timeout # None

\* C8: after a server has handled a VoteRequest or a Heartbeat of a term
\* higher than its own, its term is the term of the message, its role is
\* FOLLOWER and its old vote is gone: voted_for is None, or the candidate
\* of that VoteRequest.
C8_HigherTermAdopted ==
    [][LET n == last'.node
           msg == last'.msg
       IN /\ (/\ last'.op = "handle_vote_request"
               /\ PeerCallsHandleVoteRequest(n, msg)
               /\ msg.term > server[n].term)
                  => /\ server'[n].term = msg.term
                     /\ server'[n].state = FOLLOWER
                     /\ server'[n].voted_for
                          \in {None, Some(msg.candidate_id)}
          /\ (/\ last'.op = "handle_log_entry"
               /\ PeerCallsHandleLogEntry(n, msg)
               /\ msg.term > server[n].term)
                  => /\ server'[n].term = msg.term
                     /\ server'[n].state = FOLLOWER
                     /\ server'[n].voted_for = None]_vars

\* C9: handle_log_entry with a Heartbeat of a term higher than the server's
\* leaves the server, whatever its role, at that term, FOLLOWER, with no
\* vote, with the sender as current_leader and with a deadline in the
\* future, and returns the new term.
C9_HigherTermHeartbeat ==
    [][LET n == last'.node
           entry == last'.msg
       IN (/\ last'.op = "handle_log_entry"
           /\ PeerCallsHandleLogEntry(n, entry)
           /\ entry.term > server[n].term)
              => /\ server'[n].term = entry.term
                 /\ server'[n].state = FOLLOWER
                 /\ server'[n].voted_for = None
                 /\ server'[n].current_leader =
                        Some([id |-> entry.peer_id, term |-> entry.term])
                 /\ server'[n].next_timeout # None
                 /\ server'[n].next_timeout[1] > 0
                 /\ server'[n].started = server[n].started
                 /\ last'.ret = entry.term]_vars

\* A server whose heartbeat driver saw it LEADER and that a heartbeat of a
\* higher term has since made a FOLLOWER of the sender.
C9_Witness ==
    \E n \in Node :
        /\ pc[n] = "heartbeat_term"
        /\ last.op = "handle_log_entry"
        /\ last.node = n
        /\ last.ret = last.msg.term
        /\ server[n].term = last.msg.term
        /\ server[n].state = FOLLOWER
        /\ server[n].voted_for = None
        /\ server[n].current_leader =
               Some([id |-> last.msg.peer_id, term |-> last.msg.term])
        /\ server[n].next_timeout = Some(TimeoutDuration)

\* C10: handle_vote_request grants iff voted_for is None and the request's
\* term is higher than the server's, and then records the candidate; it
\* denies otherwise and leaves voted_for alone; the response carries the
\* request's term; term, role, current_leader and next_timeout never change.
C10_VoteDecisionTable ==
    [][LET n == last'.node
           request == last'.msg
       IN (/\ last'.op = "handle_vote_request"
           /\ PeerCallsHandleVoteRequest(n, request))
              => LET grant == /\ server[n].voted_for = None
                              /\ request.term > server[n].term
                 IN /\ last'.ret = [term |-> request.term,
                                    vote_granted |-> grant]
                    /\ server'[n] =
                         [server[n] EXCEPT !.voted_for =
                             IF grant THEN Some(request.candidate_id)
                                      ELSE @]]_vars

\* A server that has just granted a vote for a term higher than its own,
\* which it still holds.
C10_Witness ==
    \E n \in Node :
        /\ last.op = "handle_vote_request"
        /\ last.node = n
        /\ last.ret.vote_granted
        /\ last.ret.term = last.msg.term
        /\ server[n].voted_for = Some(last.msg.candidate_id)
        /\ server[n].term < last.msg.term

\* C11: new_election on a LEADER sends no VoteRequest and leaves the Server
\* as it is: from the LEADER check to its return the thread prepares no
\* request, hands nothing to the transport and writes nothing.
C11_LeaderStartsNoElection ==
    [][\A n \in Node :
          /\ (/\ pc[n] = "prepare_vote_request"
               /\ server[n].state = LEADER
               /\ pc'[n] # pc[n])
                  => /\ pc'[n] = "no_election"
                     /\ server'[n] = server[n]
                     /\ vote_request'[n] = None
                     /\ vote_requests' = vote_requests
          /\ (pc[n] = "no_election" /\ pc'[n] # pc[n])
                  => /\ pc'[n] = "broadcast_heartbeat"
                     /\ server'[n] = server[n]
                     /\ vote_request'[n] = None
                     /\ vote_requests' = vote_requests]_vars

\* A LEADER whose new_election is about to return without a request.
C11_Witness ==
    \E n \in Node :
        /\ pc[n] = "no_election"
        /\ server[n].state = LEADER
        /\ server[n].term > 0
        /\ server[n].voted_for = Some(n)
        /\ vote_request[n] = None
        /\ own_vote_requests(n) = {}

C13_ElectionOutcome ==
    [][\A n \in Node :
          /\ server'[n].term # server[n].term
                => /\ pc[n] = "start_candidacy"
                   /\ server'[n].term = server[n].term + 1
          /\ (pc[n] = "start_candidacy" /\ pc'[n] # pc[n])
                => /\ server[n].state # LEADER
                   /\ server'[n].term = server[n].term + 1
          /\ (pc'[n] \in {"broadcasting", "lost_election"} /\ pc'[n] # pc[n])
                => LET grants == Grants(vote_response'[n])
                       peer_count == server'[n].number_of_peers
                   IN  /\ server'[n].term = candidacy'[n][1]
                       /\ server'[n].state =
                            IF grants + 1 > (peer_count + 1) \div 2
                            THEN LEADER ELSE CANDIDATE
                       /\ peer_count = 2
                            => (server'[n].state = LEADER <=> grants >= 1)
                       /\ peer_count = 4
                            => (server'[n].state = LEADER <=> grants >= 2)]_vars

\* The tie: 3 peers, 1 grant, 2 votes of 4.
C13_Witness ==
    \E n \in Node :
        /\ pc[n] = "lost_election"
        /\ server[n].number_of_peers = 3
        /\ Grants(vote_response[n]) = 1
        /\ server[n].state = CANDIDATE
        /\ server[n].term = 1

\* C14: no server holds its lock while a call of its RpcClient
\* (request_vote, broadcast_log_entry) is in progress.
C14_NoLockAcrossTransport ==
    \A n \in Node : in_transport_call(n) => ~lock_held(n)

\* The servers of S wait for each other: each is inside a call of its
\* RpcClient that waits for the handler of a server of S, and that handler
\* waits for the lock its server holds.
Deadlocked(S) ==
    /\ Cardinality(S) >= 2
    /\ \A n \in S :
         /\ in_transport_call(n)
         /\ \E m \in own_vote_requests(n) \cup own_log_entries(n) :
               m.to \in S /\ lock_held(m.to)

\* C15: with a transport whose calls return only when the peers' handlers
\* have returned, no two or more servers ever wait for each other.
C15_NoDeadlock == \A S \in SUBSET Node : ~Deadlocked(S)

\* C16: the VoteRequest a server sends carries the term its candidacy set
\* (the old term + 1, set with CANDIDATE, voted_for and the timeout in one
\* step) and the server's id, whatever is handled in between.
C16_RequestCarriesCandidacyTerm ==
    \A n \in Node :
        vote_request[n] # None
           => /\ candidacy[n] # None
              /\ vote_request[n] =
                   Some([term |-> candidacy[n][1], candidate_id |-> n])

\* Every Heartbeat in flight carries a term at which its sender has been
\* LEADER.
HeartbeatOfALeaderTerm ==
    \A m \in log_entries : m.term \in led[m.peer_id]

\* C17: every Heartbeat a server broadcasts carries a term at which that
\* server has been LEADER at or before the broadcast; stated for the
\* Heartbeats that broadcast_heartbeat sends.
C17_HeartbeatOfALeaderTerm ==
    [][\A n \in Node :
          (pc[n] = "heartbeat_term" /\ pc'[n] # pc[n])
             => \A m \in log_entries' \ log_entries :
                   m.peer_id = n => m.term \in led[n]]_vars

\* C18: handle_log_entry of a Heartbeat whose term is not higher than the
\* server's changes nothing of the server but next_timeout and returns the
\* server's unchanged term; a CANDIDATE that gets a Heartbeat of its own
\* term stays CANDIDATE.
C18_StaleHeartbeatFrame ==
    [][LET n == last'.node
           entry == last'.msg
       IN (/\ last'.op = "handle_log_entry"
           /\ PeerCallsHandleLogEntry(n, entry)
           /\ entry.term <= server[n].term)
              => /\ [server'[n] EXCEPT !.next_timeout = server[n].next_timeout]
                       = server[n]
                 /\ last'.ret = server[n].term
                 /\ last'.ret = server'[n].term
                 /\ (server[n].state = CANDIDATE /\ entry.term = server[n].term)
                       => server'[n].state = CANDIDATE]_vars

\* A CANDIDATE waiting in request_vote that has just handled a Heartbeat of
\* its own term.
C18_Witness ==
    \E n \in Node :
        /\ pc[n] = "request_vote"
        /\ last.op = "handle_log_entry"
        /\ last.node = n
        /\ last.msg.term = server[n].term
        /\ last.ret = server[n].term
        /\ server[n].state = CANDIDATE
        /\ server[n].voted_for = Some(n)
        /\ server[n].term > 0

\* C19: handle_timeout starts an election only when the clock of the server
\* has run for a whole timeout since the last Heartbeat it handled, stale or
\* not: a started FOLLOWER or CANDIDATE that gets its Heartbeats at shorter
\* intervals starts no election.
C19_HeartbeatsDelayElection ==
    [][\A n \in Node :
          (pc[n] = "handle_timeout" /\ pc'[n] = "prepare_vote_request")
             => quiet[n] >= TimeoutDuration]_vars

\* A started CANDIDATE back in handle_timeout that has just handled a
\* Heartbeat of a lower term: its deadline is a whole timeout away.
C19_Witness ==
    \E n \in Node :
        /\ pc[n] = "handle_timeout"
        /\ server[n].started
        /\ server[n].state = CANDIDATE
        /\ last.op = "handle_log_entry"
        /\ last.node = n
        /\ last.msg.term < server[n].term
        /\ quiet[n] = 0
        /\ server[n].next_timeout = Some(TimeoutDuration)
        /\ ~has_timed_out(server[n])

\* C20: a server that has granted its vote to another candidate for term t
\* never afterwards starts a candidacy at term t with voted_for itself, and
\* so never counts its own vote for term t in a tally.
C20_NoCandidacyAfterGrant ==
    [][\A n \in Node :
          (pc[n] = "start_candidacy" /\ pc'[n] # pc[n])
             => server'[n].term \notin votes_granted[n]]_vars

====
